---- MODULE Spec2Model ----
(***************************************************************************)
(* Model of itasca.py: the FISH socket server (ItascaFishSocketServer),    *)
(* the connection wrapper (ItascaSoftwareConnection) and the reader of     *)
(* structured FISH binary files (FishBinaryReader).                        *)
(*                                                                         *)
(* Bytes are the integers 0..255 and a stream is a sequence of bytes.      *)
(* Python values are records [t |-> <type name>, v |-> <payload>], the     *)
(* payload a tuple of integers: <<n>> for an int or a bool, the bytes of   *)
(* a str, the doubles of a float or a list. An int (and a bool, which is   *)
(* an int) also carries hi, the multiple of 2^32 by which it lies outside  *)
(* the 32-bit range (v[1] + hi * 2^32 is the int; hi = 0 means it fits     *)
(* "i"). An exception is a record whose t is its text.                     *)
(***************************************************************************)
EXTENDS Integers, Sequences, FiniteSets, TLC

\* ------------------------------------------------------------------ bounds
MaxPeerMsgs == 2    \* messages the peer writes on one connection
MaxSends    == 1    \* send() calls of the host on one connection
MaxAccepts  == 2    \* connect() calls of the host on one instance
MaxRecords  == 2    \* records after the header of a log file
MaxReads    == 3    \* direct read() calls on a log reader
MaxBufferLength == 8  \* longest string buffer a decoder is followed into
MaxTrunc    == 2    \* bytes missing at the end of a log file
MaxCut      == 4    \* bytes of its last message the peer writes before closing

\* --------------------------------------------------------- struct module
\* struct.calcsize of the formats the module uses
calcsize_i == 4
calcsize_d == 8

\* struct.pack("i", v): 4 bytes, little endian, two's complement
pack_i(v) ==
    LET w == IF v >= 0 THEN v ELSE (v + 2147483647) + 1
        top == IF v >= 0 THEN 0 ELSE 128
    IN  << w % 256, (w \div 256) % 256, (w \div 65536) % 256,
           top + (w \div 16777216) >>

\* struct.unpack("i", b) of exactly 4 bytes
unpack_i(b) ==
    IF b[4] < 128
    THEN b[1] + 256 * b[2] + 65536 * b[3] + 16777216 * b[4]
    ELSE ((b[1] + 256 * b[2] + 65536 * b[3] + 16777216 * (b[4] - 128))
            - 2147483647) - 1

\* A double of the model is one whose low 48 bits are zero; it is written as
\* the integer its high 16 bits make (IEEE-754 binary64).
D_0_0 == 0        \* 0.0 = 0x0000...
D_1_0 == 16368    \* 1.0 = 0x3FF0...
D_2_0 == 16384    \* 2.0 = 0x4000...
D_3_0 == 16392    \* 3.0 = 0x4008...
D_3_5 == 16396    \* 3.5 = 0x400C...

\* struct.pack("d", d): 8 bytes, little endian
pack_d(d) == <<0, 0, 0, 0, 0, 0, d % 256, d \div 256>>

\* struct.unpack("d", b) of exactly 8 bytes; -1 stands for every double whose
\* low 48 bits are not zero
unpack_d(b) ==
    IF \A i \in 1..6 : b[i] = 0 THEN b[7] + 256 * b[8] ELSE -1

Min(a, b) == IF a < b THEN a ELSE b

\* s[:n] of Python, for any integer n
Slice(s, n) ==
    IF n >= 0 THEN SubSeq(s, 1, IF n < Len(s) THEN n ELSE Len(s))
    ELSE SubSeq(s, 1, IF Len(s) + n > 0 THEN Len(s) + n ELSE 0)

\* " " * n of Python (empty for n <= 0)
Spaces(n) == [i \in 1..(IF n > 0 THEN n ELSE 0) |-> 32]

\* ------------------------------------------------------- Python values
PyInt(n)   == [t |-> "int", v |-> <<n>>, hi |-> 0]
PyFloat(d) == [t |-> "float", v |-> <<d>>]
PyStr(s)   == [t |-> "str", v |-> s]
PyList(l)  == [t |-> "list", v |-> l]
PyBool(b)  == [t |-> "bool", v |-> <<IF b THEN 1 ELSE 0>>, hi |-> 0]
PyNone     == [t |-> "NoneType", v |-> <<>>]

PyExc(name) == [t |-> name, v |-> <<>>]

\* == of Python on two values of the model
SameVal(a, b) == a.t = b.t /\ a.v = b.v

\* The program's magic number (self.fishcode, and the header of a FISH file)
fishcode == 178278912

\* ----------------------------------------------------------------- state
VARIABLES
    maxint_wide,  \* the build: TRUE when sys.maxint is 2^63-1, FALSE when 2^31-1
    sock,         \* self.socket: "none", "unbound" or "listening"
    conn,         \* self.conn: "none", "open" or "closed"
    accepted,     \* peers accepted by this instance so far
    loopback,     \* the accepted peer writes back every byte it is sent
    instream,     \* bytes the peer has written on the connection
    peerClosed,   \* the peer has closed the connection
    plog,         \* the messages the peer wrote, in order
    rpos,         \* bytes of the inbound stream recv has delivered
    short,        \* some recv on this connection delivered fewer bytes than asked
    outstream,    \* bytes sendall has written on the connection
    sent,         \* the values send_data has written completely, in order
    nsends,       \* send() calls made on this connection
    pc,           \* where the host is: "idle" or inside a call
    ret,          \* the call site read_type returns to
    byte_count,   \* read_type: byte_count
    bytes_read,   \* read_type: bytes_read
    data,         \* read_type: data
    length,       \* read_data: length
    sending,      \* send_data: value, between its two sendall calls
    result,       \* outcome of the last call: [op, st, v]
    hs,           \* connect(): "none", "ok", "mismatch" (the assert) or "failed"
    nrecv,        \* values receive() has returned on this connection
    broken,       \* some receive() on this open connection raised
    src,          \* the records the log file was written from (indices of LogRecs)
    file,         \* the bytes of the log file
    reader,       \* the FishBinaryReader: "none", "open" or "failed"
    fpos,         \* position of self.file
    lpc,          \* "idle", or "iterating" inside a for loop over the reader
    items,        \* values the iteration in progress has yielded
    lres,         \* outcome of the last call on the reader: [op, st, v, at]
    nreads,       \* direct read() calls made
    iread         \* a direct read() was made inside the iteration in progress

sockVars == <<maxint_wide, sock, conn, accepted, loopback, instream, peerClosed,
              plog, rpos, short, outstream, sent, nsends, pc, ret, byte_count,
              bytes_read, data, length, sending, result, hs, nrecv, broken>>

logVars == <<src, file, reader, fpos, lpc, items, lres, nreads, iread>>

vars == <<sockVars, logVars>>

\* The bytes recv can still deliver: the peer's, or the host's own when the
\* peer echoes.
InStream == IF loopback THEN outstream ELSE instream
Avail == Len(InStream) - rpos

NoResult == [op |-> "none", st |-> "none", v |-> PyNone]

buildVars == <<maxint_wide, loopback>>
srvVars   == <<sock, conn, accepted>>
peerVars  == <<instream, peerClosed, plog>>
rtVars    == <<ret, byte_count, bytes_read, data, length>>

\* ------------------------------------------------------------ send_data
\* buffer_length of send_data (Python 2: / on ints is floor division)
send_buffer_length(n) == 4 * (1 + (n - 1) \div 4)

\* struct.pack("%is" % n, s): s cut or NUL-padded to exactly n bytes
pack_s(n, s) == [i \in 1..n |-> IF i <= Len(s) THEN s[i] ELSE 0]

\* (a variant that tests isinstance(value, int): a bool is an int too)
is_int_isinstance(value) ==
    value.t \in {"int", "bool"} /\ (value.hi = 0 \/ maxint_wide)

\* type(value) == int: an int beyond sys.maxint is a long
is_int(value) == value.t = "int" /\ (value.hi = 0 \/ maxint_wide)

\* The branch of send_data's if/elif chain that value takes
send_branch(value) ==
    IF is_int(value) THEN "int"
    ELSE IF value.t = "float" THEN "float"
    ELSE IF value.t = "list" /\ Len(value.v) = 2 THEN "v2"
    ELSE IF value.t = "list" /\ Len(value.v) = 3 THEN "v3"
    ELSE IF value.t = "str" THEN "str"
    ELSE "else"

\* The bytes of the first sendall of send_data
send_first(value) ==
    CASE send_branch(value) = "int"   -> pack_i(1)
      [] send_branch(value) = "float" -> pack_i(2)
      [] send_branch(value) = "v2"    -> pack_i(5)
      [] send_branch(value) = "v3"    -> pack_i(6)
      [] send_branch(value) = "str"   -> pack_i(3) \o pack_i(Len(value.v))

\* struct.pack of the second sendall raises struct.error
send_second_raises(value) == send_branch(value) = "int" /\ value.hi # 0

\* The bytes of the second sendall of send_data
send_second(value) ==
    CASE send_branch(value) = "int"   -> pack_i(value.v[1])
      [] send_branch(value) = "float" -> pack_d(value.v[1])
      [] send_branch(value) = "v2"    -> pack_d(value.v[1]) \o pack_d(value.v[2])
      [] send_branch(value) = "v3"    ->
            pack_d(value.v[1]) \o pack_d(value.v[2]) \o pack_d(value.v[3])
      [] send_branch(value) = "str"   ->
            LET buffer_length == send_buffer_length(Len(value.v))
            IN  pack_s(buffer_length,
                       value.v \o Spaces(buffer_length - Len(value.v)))

\* ------------------------------------------------------------ call ends
\* A call of the host ends: it returns (st = "ok") or raises (st = "raise").
Finish(op, st, v) ==
    /\ pc' = "idle"
    /\ result' = [op |-> op, st |-> st, v |-> v]
    /\ hs' = IF op # "connect" THEN hs
             ELSE IF st = "ok" THEN "ok"
             ELSE IF v.t = "AssertionError: handshake" THEN "mismatch"
             ELSE "failed"
    /\ nrecv' = IF op = "receive" /\ st = "ok" THEN nrecv + 1 ELSE nrecv
    /\ broken' = (broken \/ (op = "receive" /\ st = "raise" /\ conn = "open"))
    /\ ret' = "none"
    /\ byte_count' = 0
    /\ bytes_read' = 0
    /\ data' = <<>>
    /\ length' = 0
    /\ sending' = PyNone

\* The call the read_type in progress belongs to
CallOf(site) == IF site = "get_handshake" THEN "connect" ELSE "receive"

\* read_type(type_string) is entered from call site `site`; size is
\* struct.calcsize(type_string), negative when the format string is malformed.
call_read_type(size, site) ==
    IF size < 0
    THEN Finish(CallOf(site), "raise", PyExc("struct.error"))
    ELSE /\ pc' = "read_type_while"
         /\ ret' = site
         /\ byte_count' = size
         /\ bytes_read' = 0
         /\ data' = <<>>
         /\ UNCHANGED <<length, result, hs, nrecv, broken, sending>>

\* the same, with read_data's local `length` set just before; buffers beyond
\* MaxBufferLength are not explored
call_read_type_str(n, size) ==
    IF size < 0
    THEN Finish("receive", "raise", PyExc("struct.error"))
    ELSE /\ size <= MaxBufferLength
         /\ pc' = "read_type_while"
         /\ ret' = "read_data:str"
         /\ byte_count' = size
         /\ bytes_read' = 0
         /\ data' = <<>>
         /\ length' = n
         /\ UNCHANGED <<result, hs, nrecv, broken, sending>>

\* ------------------------------------------------------------ read_data
\* buffer_length of read_data
read_buffer_length(n) == 4 * (1 + (n - 1) \div 4)

\* (a variant that returns the whole buffer, padding included)
read_data_str_unstripped(d, n) == d

\* data[:length], the string read_data returns
read_data_str(d, n) == Slice(d, n)

\* read_data after the type code is read: the if/elif chain on type_code
read_data_dispatch(type_code) ==
    IF type_code = 1 THEN call_read_type(calcsize_i, "read_data:int")
    ELSE IF type_code = 2 THEN call_read_type(calcsize_d, "read_data:float")
    ELSE IF type_code = 3 THEN call_read_type(calcsize_i, "read_data:length")
    ELSE IF type_code = 5 THEN call_read_type(2 * calcsize_d, "read_data:v2")
    ELSE IF type_code = 6 THEN call_read_type(3 * calcsize_d, "read_data:v3")
    ELSE Finish("receive", "raise", PyExc("AssertionError: Data read type error"))

\* connect() after get_handshake returned value: assert value == self.fishcode
connect_assert(value) ==
    IF value = fishcode
    THEN Finish("connect", "ok", PyInt(value))
    ELSE Finish("connect", "raise", PyExc("AssertionError: handshake"))

\* read_type returned d to the call site it was entered from
read_type_return(d) ==
    CASE ret = "get_handshake"    -> connect_assert(unpack_i(d))
      [] ret = "read_data:type_code" -> read_data_dispatch(unpack_i(d))
      [] ret = "read_data:int"    -> Finish("receive", "ok", PyInt(unpack_i(d)))
      [] ret = "read_data:float"  -> Finish("receive", "ok", PyFloat(unpack_d(d)))
      [] ret = "read_data:length" ->
            call_read_type_str(unpack_i(d), read_buffer_length(unpack_i(d)))
      [] ret = "read_data:str"    ->
            Finish("receive", "ok", PyStr(read_data_str(d, length)))
      [] ret = "read_data:v2"     ->
            Finish("receive", "ok",
                   PyList(<<unpack_d(SubSeq(d, 1, 8)), unpack_d(SubSeq(d, 9, 16))>>))
      [] ret = "read_data:v3"     ->
            Finish("receive", "ok",
                   PyList(<<unpack_d(SubSeq(d, 1, 8)), unpack_d(SubSeq(d, 9, 16)),
                            unpack_d(SubSeq(d, 17, 24))>>))

\* ------------------------------------------------------------ read_type
\* The progress read_type records for one recv: bytes_read += len(data)
bytes_read_after(br, data_after, data_in) == br + Len(data_after)

\* read_type, line 66 and 70-71: the loop test, then the assert and the return
read_type_while ==
    /\ pc = "read_type_while"
    /\ IF bytes_read < byte_count
       THEN /\ pc' = "read_type_recv"
            /\ UNCHANGED <<rtVars, result, hs, nrecv, broken, sending>>
       ELSE IF Len(data) # byte_count
       THEN Finish(CallOf(ret), "raise", PyExc("AssertionError: bad packet data"))
       ELSE read_type_return(data)
    /\ UNCHANGED <<buildVars, srvVars, peerVars, rpos, short, outstream, sent, nsends>>
    /\ UNCHANGED logVars

\* (a variant that asks for the whole count on every pass)
recv_bufsize_whole(bc, br) == bc

\* The count read_type asks recv for: byte_count - bytes_read
recv_bufsize(bc, br) == bc - br

\* read_type, lines 67-69: one recv of at most byte_count - bytes_read bytes.
\* recv blocks while nothing has arrived and the peer has not closed; it
\* delivers any number 1..asked of the bytes that have arrived, or none once
\* the peer has closed and the stream is drained.
read_type_recv ==
    /\ pc = "read_type_recv"
    /\ \/ /\ Avail > 0
          /\ \E j \in 1..Min(recv_bufsize(byte_count, bytes_read), Avail) :
                /\ LET data_in == SubSeq(InStream, rpos + 1, rpos + j)
                   IN  /\ data' = data \o data_in
                       /\ bytes_read' = bytes_read_after(bytes_read, data \o data_in, data_in)
                /\ rpos' = rpos + j
                /\ short' = (short \/ j < recv_bufsize(byte_count, bytes_read))
       \/ /\ Avail = 0
          /\ peerClosed
          /\ data' = data
          /\ bytes_read' = bytes_read_after(bytes_read, data, <<>>)
          /\ UNCHANGED <<rpos, short>>
    /\ pc' = "read_type_while"
    /\ UNCHANGED <<ret, byte_count, length, result, hs, nrecv, broken, sending>>
    /\ UNCHANGED <<buildVars, srvVars, peerVars, outstream, sent, nsends>>
    /\ UNCHANGED logVars

\* ------------------------------------------------- ItascaFishSocketServer
\* start(): a new socket, bind, listen, accept. The instance's earlier
\* sockets lose their last reference (self.socket and self.conn are
\* overwritten). Once an earlier connection of this port exists, bind may
\* raise (address in use) or not, by platform; accept blocks until a peer
\* connects, or is interrupted while it waits (KeyboardInterrupt, EINTR).
\* ok: bind succeeded; peer: accept returned a connection.
start_effect(ok, peer) ==
    IF ok /\ peer
    THEN /\ sock' = "listening"
         /\ conn' = "open"
         /\ accepted' = accepted + 1
         /\ instream' = <<>>
         /\ peerClosed' = FALSE
         /\ plog' = <<>>
         /\ rpos' = 0
         /\ short' = FALSE
         /\ outstream' = <<>>
         /\ sent' = <<>>
         /\ nsends' = 0
    ELSE /\ sock' = IF ok THEN "listening" ELSE "unbound"
         /\ UNCHANGED <<conn, accepted, instream, peerClosed, plog, rpos, short,
                        outstream, sent, nsends>>

\* What start() raises when it does not return
start_raises(ok) == PyExc(IF ok THEN "KeyboardInterrupt" ELSE "socket.error")

\* The outcomes bind can have
bind_outcomes == IF accepted > 0 THEN {TRUE, FALSE} ELSE {TRUE}

\* The outcomes accept can have: a peer connects, or the wait is interrupted
accept_outcomes == {TRUE, FALSE}

\* server.start() called directly
start ==
    /\ pc = "idle"
    /\ accepted < MaxAccepts
    /\ \E ok \in bind_outcomes : \E peer \in accept_outcomes :
          /\ start_effect(ok, peer)
          /\ IF ok /\ peer
             THEN /\ pc' = "idle"
                  /\ result' = [op |-> "start", st |-> "ok", v |-> PyNone]
                  /\ hs' = "none"
                  /\ nrecv' = 0
                  /\ broken' = FALSE
                  /\ UNCHANGED <<rtVars, sending>>
             ELSE /\ Finish("start", "raise", start_raises(ok))
    /\ UNCHANGED buildVars
    /\ UNCHANGED logVars

\* ----------------------------------------------- ItascaSoftwareConnection
\* (a variant that reads the handshake as two ints)
get_handshake_size_ii == 2 * calcsize_i

\* get_handshake(): struct.calcsize of the type string it reads, "i"
get_handshake_size == calcsize_i

\* connect(): server.start(), then get_handshake() enters read_type("i")
connect ==
    /\ pc = "idle"
    /\ accepted < MaxAccepts
    /\ \E ok \in bind_outcomes : \E peer \in accept_outcomes :
          /\ start_effect(ok, peer)
          /\ IF ok /\ peer
             THEN /\ pc' = "read_type_while"
                  /\ ret' = "get_handshake"
                  /\ byte_count' = get_handshake_size
                  /\ bytes_read' = 0
                  /\ data' = <<>>
                  /\ result' = NoResult
                  /\ hs' = "none"
                  /\ nrecv' = 0
                  /\ broken' = FALSE
                  /\ UNCHANGED <<length, sending>>
             ELSE /\ Finish("connect", "raise", start_raises(ok))
    /\ UNCHANGED buildVars
    /\ UNCHANGED logVars

\* receive(): server.read_data() enters read_type("i") for the type code.
\* Without self.conn the attribute lookup raises; on a closed socket recv raises.
receive ==
    /\ pc = "idle"
    /\ IF conn = "none"
       THEN Finish("receive", "raise", PyExc("AttributeError"))
       ELSE IF conn = "closed"
       THEN Finish("receive", "raise", PyExc("socket.error"))
       ELSE /\ call_read_type(calcsize_i, "read_data:type_code")
    /\ UNCHANGED <<buildVars, srvVars, peerVars, rpos, short, outstream, sent, nsends>>
    /\ UNCHANGED logVars

\* (a variant in which a socket the host closed still writes)
sendall_raises_peer_only == peerClosed

\* sendall raises on a socket the host closed or the peer closed
sendall_raises == conn # "open" \/ peerClosed

\* send(value): server.send_data(value) up to and including its first sendall
send(value) ==
    /\ pc = "idle"
    /\ nsends < MaxSends
    /\ nsends' = nsends + 1
    /\ IF send_branch(value) = "else"
       THEN /\ Finish("send", "raise", PyExc("Exception: unknown type in send_data"))
            /\ UNCHANGED outstream
       ELSE IF conn = "none"
       THEN /\ Finish("send", "raise", PyExc("AttributeError"))
            /\ UNCHANGED outstream
       ELSE IF sendall_raises
       THEN /\ Finish("send", "raise", PyExc("socket.error"))
            /\ UNCHANGED outstream
       ELSE /\ outstream' = outstream \o send_first(value)
            /\ pc' = "send_data:second"
            /\ sending' = value
            /\ UNCHANGED <<rtVars, result, hs, nrecv, broken>>
    /\ UNCHANGED <<buildVars, srvVars, peerVars, rpos, short, sent>>
    /\ UNCHANGED logVars

\* send_data: struct.pack of the payload and the second sendall
send_data_second ==
    /\ pc = "send_data:second"
    /\ IF send_second_raises(sending)
       THEN /\ Finish("send", "raise", PyExc("struct.error"))
            /\ UNCHANGED <<outstream, sent>>
       ELSE IF sendall_raises
       THEN /\ Finish("send", "raise", PyExc("socket.error"))
            /\ UNCHANGED <<outstream, sent>>
       ELSE /\ outstream' = outstream \o send_second(sending)
            /\ sent' = Append(sent, sending)
            /\ Finish("send", "ok", PyNone)
    /\ UNCHANGED <<buildVars, srvVars, peerVars, rpos, short, nsends>>
    /\ UNCHANGED logVars

\* end(): server.close() closes self.conn (and nothing else)
end ==
    /\ pc = "idle"
    /\ IF conn = "none"
       THEN /\ Finish("end", "raise", PyExc("AttributeError"))
            /\ UNCHANGED conn
       ELSE /\ conn' = "closed"
            /\ Finish("end", "ok", PyNone)
    /\ UNCHANGED <<buildVars, sock, accepted, peerVars, rpos, short, outstream,
                   sent, nsends>>
    /\ UNCHANGED logVars

\* ------------------------------------------------------------- the peer
\* What the peer writes: a bare int32 (k = "raw") or a value in the wire
\* format send_data writes (k = "val"); n is the number of bytes written.
Wire(value) == send_first(value) \o send_second(value)
PeerBytes(m) == IF m.k = "raw" THEN pack_i(m.v.v[1]) ELSE Wire(m.v)
Raw(i) == [k |-> "raw", v |-> PyInt(i)]
Val(value) == [k |-> "val", v |-> value]

PeerMsgs ==
    << Raw(fishcode), Raw(7), Val(PyInt(fishcode)), Val(PyStr(<<>>)),
       Val(PyStr(<<97, 98, 99, 100, 101>>)) >>

\* The peer writes one whole message. The engine and the host take turns: the
\* peer writes when the host has read all it wrote before (recv never delivers
\* more than one field's bytes, so bytes written ahead would change nothing).
PeerSend(m) ==
    /\ conn = "open" /\ ~loopback /\ ~peerClosed
    /\ Len(plog) < MaxPeerMsgs /\ Avail = 0
    /\ instream' = instream \o PeerBytes(m)
    /\ plog' = Append(plog, [k |-> m.k, v |-> m.v, n |-> Len(PeerBytes(m))])
    /\ UNCHANGED <<peerClosed, buildVars, srvVars, rpos, short, outstream, sent,
                   nsends, pc, rtVars, sending, result, hs, nrecv, broken>>
    /\ UNCHANGED logVars

\* The peer closes the connection after the first n bytes of a message
\* (n = 0: between messages)
PeerClose(m, n) ==
    /\ conn = "open" /\ ~loopback /\ ~peerClosed
    /\ Len(plog) < MaxPeerMsgs /\ Avail = 0
    /\ n < Len(PeerBytes(m))
    /\ instream' = instream \o SubSeq(PeerBytes(m), 1, n)
    /\ plog' = IF n = 0 THEN plog ELSE Append(plog, [k |-> m.k, v |-> m.v, n |-> n])
    /\ peerClosed' = TRUE
    /\ UNCHANGED <<buildVars, srvVars, rpos, short, outstream, sent,
                   nsends, pc, rtVars, sending, result, hs, nrecv, broken>>
    /\ UNCHANGED logVars

\* ----------------------------------------------------- the host's inputs
\* (tuples, not sets: values of different Python types are not ordered)
SendVals ==
    << PyInt(5), [t |-> "int", v |-> <<0>>, hi |-> 1], PyStr(<<97>>),
       PyList(<<D_1_0>>), PyBool(TRUE) >>

\* Values of the supported socket types
RoundTripVals ==
    << PyInt(5), PyInt(-2), PyInt(fishcode), PyFloat(D_3_5), PyFloat(D_0_0),
      PyList(<<D_1_0, D_2_0>>), PyList(<<D_1_0, D_2_0, D_3_0>>),
      PyStr(<<>>), PyStr(<<97>>), PyStr(<<97, 98, 99>>), PyStr(<<97, 98, 99, 100>>),
      PyStr(<<97, 98, 99, 100, 101>>) >>

\* ------------------------------------------------------ FishBinaryReader
\* self.file.read(n) at position pos: the next n bytes, fewer at the end
file_read(pos, n) == SubSeq(file, pos + 1, pos + Min(n, Len(file) - pos))

\* A raise inside read(), with the file position it leaves
Raised(name, pos) == [st |-> "raise", v |-> PyExc(name), pos |-> pos]
Returned(value, pos) == [st |-> "ok", v |-> value, pos |-> pos]

\* _read_int() at pos: struct.unpack raises unless 4 bytes were read
read_int(pos) ==
    LET d == file_read(pos, calcsize_i)
    IN  IF Len(d) # calcsize_i
        THEN Raised("struct.error", pos + Len(d))
        ELSE Returned(PyInt(unpack_i(d)), pos + Len(d))

\* _read_double() at pos
read_double(pos) ==
    LET d == file_read(pos, calcsize_d)
    IN  IF Len(d) # calcsize_d
        THEN Raised("struct.error", pos + Len(d))
        ELSE Returned(PyFloat(unpack_d(d)), pos + Len(d))

\* buffer_length of FishBinaryReader.read
file_buffer_length(n) == 4 * (1 + (n - 1) \div 4)

\* read() of a string, after the type code: the length, then the buffer
read_string(pos) ==
    LET n == read_int(pos)
    IN  IF n.st = "raise" THEN n
        ELSE IF file_buffer_length(n.v.v[1]) < 0
        THEN Raised("struct.error", n.pos)
        ELSE LET d == file_read(n.pos, file_buffer_length(n.v.v[1]))
             IN  Returned(PyStr(Slice(d, n.v.v[1])), n.pos + Len(d))

\* read() of k doubles, after the type code
read_vector(pos, k) ==
    LET a == read_double(pos)
        b == read_double(a.pos)
        c == read_double(b.pos)
    IN  IF a.st = "raise" THEN a
        ELSE IF b.st = "raise" THEN b
        ELSE IF k = 2 THEN Returned(PyList(<<a.v.v[1], b.v.v[1]>>), b.pos)
        ELSE IF c.st = "raise" THEN c
        ELSE Returned(PyList(<<a.v.v[1], b.v.v[1], c.v.v[1]>>), c.pos)

\* What read() returns for type code 8
read_bool(value) == PyBool(value # 0)

\* (a variant that puts an unknown type code back)
read_no_branch_rewind(pos) == Returned(PyNone, pos - calcsize_i)

\* What read() does when no branch matches the type code: it falls off the end
read_no_branch(pos) == Returned(PyNone, pos)

\* read() at pos
read_at(pos) ==
    LET tc == read_int(pos)
        type_code == tc.v.v[1]
    IN  IF tc.st = "raise" THEN tc
        ELSE IF type_code = 1 THEN read_int(tc.pos)
        ELSE IF type_code = 8
        THEN LET b == read_int(tc.pos)
             IN  IF b.st = "raise" THEN b ELSE Returned(read_bool(b.v.v[1]), b.pos)
        ELSE IF type_code = 2 THEN read_double(tc.pos)
        ELSE IF type_code = 3 THEN read_string(tc.pos)
        ELSE IF type_code = 5 THEN read_vector(tc.pos, 2)
        ELSE IF type_code = 6 THEN read_vector(tc.pos, 3)
        ELSE read_no_branch(tc.pos)

LogResult(op, r, at) == [op |-> op, st |-> r.st, v |-> r.v, at |-> at]
NoLogResult == [op |-> "none", st |-> "none", v |-> PyNone, at |-> 0]

\* (a variant that accepts every header)
header_any(value) == TRUE

\* __init__: the condition of assert fishcode == 178278912
header_ok(value) == value = fishcode

\* FishBinaryReader(filename): open, read the fishcode, assert it
open ==
    /\ reader = "none"
    /\ LET h == read_int(0)
       IN  /\ fpos' = h.pos
           /\ IF h.st = "raise"
              THEN /\ reader' = "failed"
                   /\ lres' = LogResult("open", h, 0)
              ELSE IF ~header_ok(h.v.v[1])
              THEN /\ reader' = "failed"
                   /\ lres' = LogResult("open",
                          Raised("AssertionError: invalid FISH binary file", h.pos), 0)
              ELSE /\ reader' = "open"
                   /\ lres' = LogResult("open", Returned(PyNone, h.pos), 0)
    /\ UNCHANGED <<src, file, lpc, items, nreads, iread>>
    /\ UNCHANGED sockVars

\* read(), called directly
read ==
    /\ reader = "open"
    /\ nreads < MaxReads
    /\ nreads' = nreads + 1
    /\ LET r == read_at(fpos)
       IN  /\ fpos' = r.pos
           /\ lres' = LogResult("read", r, fpos)
    /\ iread' = (iread \/ lpc = "iterating")
    /\ UNCHANGED <<src, file, reader, lpc, items>>
    /\ UNCHANGED sockVars

\* (a variant that does not seek: it stays where the file is)
iter_no_seek(pos) == pos

\* __iter__(): self.file.seek(0), the position it sets
iter_seek(pos) == 0

\* __iter__(): seek(0), then _read_int() pops the magic number
iter ==
    /\ reader = "open"
    /\ LET h == read_int(iter_seek(fpos))
       IN  /\ fpos' = h.pos
           /\ IF h.st = "raise"
              THEN /\ lpc' = "idle"
                   /\ lres' = LogResult("iter", h, 0)
                   /\ UNCHANGED items
              ELSE /\ lpc' = "iterating"
                   /\ items' = <<>>
                   /\ lres' = LogResult("iter", Returned(PyNone, h.pos), 0)
    /\ iread' = FALSE
    /\ UNCHANGED <<src, file, reader, nreads>>
    /\ UNCHANGED sockVars

\* next(), called by the for loop: read(), any exception becomes StopIteration
next ==
    /\ reader = "open"
    /\ lpc = "iterating"
    /\ LET r == read_at(fpos)
       IN  /\ fpos' = r.pos
           /\ IF r.st = "raise"
              THEN /\ lpc' = "idle"
                   /\ lres' = LogResult("next", Raised("StopIteration", r.pos), fpos)
                   /\ UNCHANGED items
              ELSE /\ lpc' = "iterating"
                   /\ items' = Append(items, r.v)
                   /\ lres' = LogResult("next", r, fpos)
    /\ UNCHANGED <<src, file, reader, nreads, iread>>
    /\ UNCHANGED sockVars

\* ------------------------------------------------------- the log files
\* The records a log file is written from: a value, or a bare int32 (k =
\* "raw"): a type code that no reader knows (7), or the pieces of a corrupt
\* string record (the type code 3, then a negative length).
LogRecs ==
    << Val(PyInt(fishcode)), Val(PyFloat(D_3_5)),
       Val(PyList(<<D_1_0, D_2_0, D_3_0>>)), Val(PyStr(<<97, 98, 99>>)),
       Val(PyBool(TRUE)), Val(PyStr(<<>>)), Val(PyInt(5)), Raw(7),
       Val(PyList(<<D_1_0, D_2_0>>)), Raw(3), Raw(-5) >>

\* The log of the end-to-end scenario
ExampleLog == <<1, 2, 3, 4, 5>>

\* The file format: the padded length of a string of n bytes
format_padded_length(n) == IF n = 0 THEN 4 ELSE 4 * ((n + 3) \div 4)

\* The file format: the payload of a record
format_payload(value, f) ==
    CASE value.t = "int"   -> pack_i(value.v[1])
      [] value.t = "bool"  -> pack_i(value.v[1])
      [] value.t = "float" -> pack_d(value.v[1])
      [] value.t = "str"   ->
            pack_i(Len(value.v)) \o value.v
              \o [i \in 1..(format_padded_length(Len(value.v)) - Len(value.v)) |-> f]
      [] value.t = "list"  ->
            IF Len(value.v) = 2
            THEN pack_d(value.v[1]) \o pack_d(value.v[2])
            ELSE pack_d(value.v[1]) \o pack_d(value.v[2]) \o pack_d(value.v[3])

\* The file format: the type code of a value
format_tag(value) ==
    CASE value.t = "int"   -> 1
      [] value.t = "float" -> 2
      [] value.t = "str"   -> 3
      [] value.t = "list"  -> IF Len(value.v) = 2 THEN 5 ELSE 6
      [] value.t = "bool"  -> 8

\* The file format: one record, padded with byte f
format_record(rec, f) ==
    IF rec.k = "raw" THEN pack_i(rec.v.v[1])
    ELSE pack_i(format_tag(rec.v)) \o format_payload(rec.v, f)

RECURSIVE format_records(_, _)
format_records(s, f) ==
    IF s = <<>> THEN <<>>
    ELSE format_record(LogRecs[Head(s)], f) \o format_records(Tail(s), f)

\* The file format: header h, then the records
format_file(h, s, f) == pack_i(h) \o format_records(s, f)

\* The record lists of the model
RecLists == (UNION {[1..n -> DOMAIN LogRecs] : n \in 0..MaxRecords}) \cup {ExampleLog}

\* --------------------------------------------------------- specifications
SockInit ==
    /\ sock = "none" /\ conn = "none" /\ accepted = 0
    /\ instream = <<>> /\ peerClosed = FALSE /\ plog = <<>>
    /\ rpos = 0 /\ short = FALSE
    /\ outstream = <<>> /\ sent = <<>> /\ nsends = 0
    /\ pc = "idle" /\ ret = "none" /\ byte_count = 0 /\ bytes_read = 0
    /\ data = <<>> /\ length = 0 /\ sending = PyNone
    /\ result = NoResult /\ hs = "none" /\ nrecv = 0 /\ broken = FALSE

\* No log file is read
LogIdle ==
    /\ src = <<>> /\ file = <<>> /\ reader = "none" /\ fpos = 0
    /\ lpc = "idle" /\ items = <<>> /\ lres = NoLogResult /\ nreads = 0
    /\ iread = FALSE

\* An ItascaSoftwareConnection and the engine that connects to it
Init == SockInit /\ maxint_wide \in BOOLEAN /\ loopback = FALSE /\ LogIdle

Next ==
    \/ connect
    \/ receive
    \/ \E i \in DOMAIN SendVals : send(SendVals[i])
    \/ send_data_second
    \/ read_type_while
    \/ read_type_recv
    \/ end
    \/ \E i \in DOMAIN PeerMsgs : PeerSend(PeerMsgs[i])
    \/ \E i \in DOMAIN PeerMsgs : \E n \in 0..MaxCut : PeerClose(PeerMsgs[i], n)

Spec == Init /\ [][Next]_vars

\* An ItascaFishSocketServer whose peer echoes what it is sent
InitEcho == SockInit /\ maxint_wide \in BOOLEAN /\ loopback = TRUE /\ LogIdle

NextEcho ==
    \/ start
    \/ receive
    \/ \E i \in DOMAIN RoundTripVals : send(RoundTripVals[i])
    \/ send_data_second
    \/ read_type_while
    \/ read_type_recv

SpecEcho == InitEcho /\ [][NextEcho]_vars

\* A FishBinaryReader on a log file: a header (the fishcode or not), records
\* laid out in the file format, and up to MaxTrunc bytes missing at the end
InitLog ==
    /\ SockInit /\ maxint_wide = TRUE /\ loopback = FALSE
    /\ src \in RecLists
    /\ \E h \in {fishcode, 7} : \E f \in {0, 32} : \E cut \in 0..MaxTrunc :
          file = SubSeq(format_file(h, src, f), 1, Len(format_file(h, src, f)) - cut)
    /\ reader = "none" /\ fpos = 0
    /\ lpc = "idle" /\ items = <<>> /\ lres = NoLogResult /\ nreads = 0
    /\ iread = FALSE

NextLog ==
    \/ open
    \/ read
    \/ iter
    \/ next

SpecLog == InitLog /\ [][NextLog]_vars

\* The host's loop steps keep running: the thread is never suspended for good
FairSpec == Spec /\ WF_vars(read_type_while) /\ WF_vars(read_type_recv)

\* ================================================================ claims

\* C1: however the stream splits the n requested bytes into deliveries,
\* read_type returns exactly the n bytes (its loop never ends with fewer), so
\* receive() never fails on complete data.
C1_SplitReadReturnsAll ==
    /\ (pc = "read_type_while" /\ bytes_read >= byte_count)
          => (Len(data) = byte_count /\ data = SubSeq(InStream, rpos - byte_count + 1, rpos))
    /\ ~broken

\* C2: once a recv delivers zero bytes because the peer closed the stream
\* before the requested count arrived, the read ends by raising.
C2_ClosedStreamRaises ==
    (pc = "read_type_recv" /\ peerClosed /\ Avail = 0)
        ~> (pc = "idle" /\ result.st = "raise")

\* C3: the string buffer length the encoder and the decoders compute for a
\* declared length n >= 0 is n for a positive multiple of 4, otherwise the
\* next multiple of 4 above n, and 4 for n = 0.
C3_PaddingLaw ==
    /\ (pc = "read_type_while" /\ ret = "read_data:str" /\ length >= 0)
          => byte_count = format_padded_length(length)
    /\ (pc = "send_data:second" /\ sending.t = "str")
          => Len(send_second(sending)) = format_padded_length(Len(sending.v))
    /\ (lres.op = "read" /\ lres.st = "ok" /\ lres.v.t = "str"
            /\ lres.at + 8 + format_padded_length(Len(lres.v.v)) <= Len(file))
          => fpos = lres.at + 8 + format_padded_length(Len(lres.v.v))

\* C4: read_data on the bytes send_data wrote returns the value that was
\* sent (strings without their padding): the i-th value received is the i-th
\* value sent, and a receive whose deliveries were all whole does not fail.
C4_RoundTrip ==
    /\ (result.op = "receive" /\ result.st = "ok" /\ ~broken)
          => (nrecv <= Len(sent) /\ SameVal(result.v, sent[nrecv]))
    /\ ~short => ~broken

\* C4 witness: a string of length 5 was sent, padded to 8, and received whole
C4_Witness ==
    /\ loopback /\ result.op = "receive" /\ result.st = "ok" /\ nrecv = 1
    /\ result.v.t = "str" /\ result.v.v = <<97, 98, 99, 100, 101>>
    /\ rpos = 16

\* The peer's first message is the handshake constant as an Integer-tagged value
PeerSentTaggedFishcode ==
    /\ plog # <<>>
    /\ plog[1].k = "val" /\ plog[1].v.t = "int" /\ plog[1].v.v = <<fishcode>>
    /\ plog[1].n = 8

\* The peer's first message is the handshake constant as a bare int32
PeerSentBareFishcode ==
    /\ plog # <<>>
    /\ plog[1].k = "raw" /\ plog[1].v.v = <<fishcode>> /\ plog[1].n = 4

C6_MismatchNeverUsable ==
    [][hs = "mismatch" => (outstream' = outstream /\ rpos' = rpos)]_vars

RECURSIVE WireAll(_)
WireAll(values) ==
    IF values = <<>> THEN <<>> ELSE Wire(Head(values)) \o WireAll(Tail(values))

\* C7: between calls the outbound stream holds only complete encodings: every
\* send() wrote the tag and the whole payload, or nothing.
C7_SendAllOrNothing ==
    pc = "idle" => outstream = WireAll(sent)

\* The type code of the record the last call on the reader began at
TagAt(at) == unpack_i(file_read(at, 4))

\* C8: a type code outside the table is fatal in both decoders: receive()
\* returns only values of the socket table, and read() on a record whose
\* type code is not 1, 2, 3, 5, 6 or 8 raises.
C8_UnknownTagFatal ==
    /\ (result.op = "receive" /\ result.st = "ok")
          => result.v.t \in {"int", "float", "str", "list"}
    /\ (lres.op \in {"read", "next"} /\ lres.at + 4 <= Len(file)
            /\ TagAt(lres.at) \notin {1, 2, 3, 5, 6, 8})
          => lres.st = "raise"

\* Length of the file the records were written to, and where its last record starts
FullLen == Len(format_file(fishcode, src, 0))
LastStart == 4 + Len(format_records(SubSeq(src, 1, Len(src) - 1), 0))

\* The call began at the last record, which has its tag but not all its payload
AtTruncatedRecord(at) ==
    /\ src # <<>>
    /\ at = LastStart
    /\ LastStart + 4 <= Len(file)
    /\ Len(file) < FullLen

\* C9: reading a record whose payload is cut short raises, and not what
\* read() raises when no bytes remain; iteration does not return it as a
\* value nor end as at a clean end.
C9_TruncatedIsNotEnd ==
    /\ (lres.op = "read" /\ AtTruncatedRecord(lres.at))
          => (lres.st = "raise" /\ lres.v # read_at(Len(file)).v)
    /\ (lres.op = "next" /\ AtTruncatedRecord(lres.at))
          => (lres.st = "raise" /\ lres.v.t # "StopIteration")

\* The file is laid out in the file format, complete, and holds values only
WellFormed ==
    /\ Len(file) = FullLen
    /\ reader = "open"
    /\ \A i \in DOMAIN src : LogRecs[src[i]].k = "val"

\* C10: iterating a well-formed log file yields exactly the recorded values,
\* in order.
C10_IterationYieldsRecords ==
    (WellFormed /\ nreads = 0 /\ lres.op = "next" /\ lres.st = "raise")
        => /\ Len(items) = Len(src)
           /\ \A i \in DOMAIN src : SameVal(items[i], LogRecs[src[i]].v)

\* The values a full iteration from position pos yields: read() until it raises
RECURSIVE IterList(_)
IterList(pos) ==
    LET r == read_at(pos)
    IN  IF r.st = "raise" THEN <<>> ELSE <<r.v>> \o IterList(r.pos)

\* An iteration ended (next() raised StopIteration) with no direct read() inside it
IterationDone == lres.op = "next" /\ lres.st = "raise" /\ ~iread

\* C11: an iteration started at any point (after a completed iteration, inside
\* an earlier one, after direct read() calls) starts right after the 4-byte
\* header, so every full iteration yields the same list: the values read from
\* position 4 on.
C11_Restart ==
    /\ (lres.op = "iter" /\ lres.st = "ok") => fpos = calcsize_i
    /\ (lpc = "iterating" /\ ~iread)
          => (Len(items) <= Len(IterList(calcsize_i))
                /\ items = SubSeq(IterList(calcsize_i), 1, Len(items)))
    /\ IterationDone => items = IterList(calcsize_i)

\* C11 witness: after direct read() calls moved the position, a full
\* iteration yielded the two records of the file
C11_Witness ==
    /\ IterationDone /\ nreads >= 2
    /\ Len(items) = 2 /\ Len(src) = 2 /\ Len(file) = FullLen

\* The first 4 bytes of the file decode to the magic number
HeaderValid == Len(file) >= calcsize_i /\ unpack_i(SubSeq(file, 1, 4)) = fishcode

\* C12: opening a source whose first 4 bytes do not decode to 178278912
\* fails and yields no reader (nothing is ever read or iterated from it);
\* opening a file with a valid header succeeds, and iterating one that has no
\* record after the header yields the empty sequence.
C12_Header ==
    /\ reader # "none" => (reader = "open" <=> HeaderValid)
    /\ reader = "failed"
          => (lres.op = "open" /\ lres.st = "raise" /\ lpc = "idle"
                /\ items = <<>> /\ nreads = 0)
    /\ (reader = "open" /\ lres.op = "open") => lres.st = "ok"
    /\ (Len(file) = calcsize_i /\ lres.op = "next") => (lres.st = "raise" /\ items = <<>>)

\* C12 witness: a file of two records under the header 7 was opened, and the
\* open failed on the assertion
C12_Witness ==
    /\ reader = "failed" /\ Len(src) = 2 /\ Len(file) = FullLen
    /\ TagAt(0) = 7 /\ lres.v.t = "AssertionError: invalid FISH binary file"

\* An empty log (the header alone) was opened and iterated to its end
C12_EmptyIterated ==
    /\ reader = "open" /\ Len(file) = calcsize_i
    /\ lres.op = "next" /\ lres.st = "raise" /\ items = <<>>

\* C13: close() called in Listening, Connected or Closed succeeds and ends
\* in Closed (so a second close() succeeds too and changes nothing).
C13_CloseSucceeds ==
    (pc = "idle" /\ result.op = "end" /\ sock = "listening")
        => (result.st = "ok" /\ conn = "closed")

\* C14: after close() returned, no socket the instance opened is still open:
\* neither the socket start() created nor the accepted connection.
C14_CloseReleasesAll ==
    (pc = "idle" /\ result.op = "end" /\ result.st = "ok")
        => (sock \notin {"unbound", "listening"} /\ conn # "open")

\* C15: one instance accepts at most one peer, whatever is called on it.
C15_OnePeer == accepted <= 1

\* C16: send and receive take effect only in Connected: while no peer
\* connection is open (before start() accepted one, or after close()), every
\* call ends at once, a send or receive raises, and no byte is written to or
\* consumed from a peer stream.
C16_OnlyConnected ==
    [][(conn # "open" /\ conn' # "open")
          => (/\ outstream' = outstream
              /\ rpos' = rpos
              /\ pc' = "idle"
              /\ (result'.op \in {"send", "receive"} => result'.st = "raise"))]_vars

\* C16 witness: the host closed the connection with a message of the peer
\* unread, and the receive() that followed raised and consumed nothing
C16_Witness ==
    /\ conn = "closed" /\ pc = "idle" /\ Avail > 0
    /\ result.op = "receive" /\ result.st = "raise"

\* A value that has no tag on the socket: not an int, a float or a str, and
\* not a list of length 2 or 3
Unsupported(value) ==
    \/ value.t \notin {"int", "float", "str", "list"}
    \/ value.t = "list" /\ Len(value.v) \notin {2, 3}

\* C17: send of a value that has no tag (a list of length other than 2 or
\* 3, a Boolean) fails with an error, writes no byte and leaves the
\* connection as it was.
C17_RefusesUnsupported ==
    [][\A i \in DOMAIN SendVals :
          (Unsupported(SendVals[i]) /\ send(SendVals[i]))
             => (/\ outstream' = outstream
                 /\ conn' = conn /\ sock' = sock /\ rpos' = rpos
                 /\ pc' = "idle"
                 /\ result'.op = "send" /\ result'.st = "raise")]_vars

\* C17 witness: on a connection whose handshake succeeded, a send was refused
\* for its type and nothing is on the outbound stream
C17_Witness ==
    /\ conn = "open" /\ hs = "ok" /\ pc = "idle"
    /\ result.op = "send" /\ result.st = "raise"
    /\ result.v.t = "Exception: unknown type in send_data"
    /\ outstream = <<>>

\* C18: each receive() consumes exactly the bytes of one value: on values
\* written back-to-back by send, every receive() returns the next value sent
\* and leaves the stream at the boundary after it.
C18_ReceiveOneValue ==
    (conn = "open" /\ pc = "idle" /\ result.op = "receive")
        => (/\ result.st = "ok"
            /\ nrecv <= Len(sent)
            /\ SameVal(result.v, sent[nrecv])
            /\ rpos = Len(WireAll(SubSeq(sent, 1, nrecv))))

\* C19: iteration terminates on every file, corrupt ones included: every
\* step that yields a value moves the file position on by at least 4 bytes,
\* the position never passes the end of the file, and a step at the end of
\* the file ends the iteration; so an iteration yields at most
\* (Len(file) - 4) / 4 values.
C19_IterationBounded ==
    /\ (lres.op = "next" /\ lres.st = "ok") => fpos >= lres.at + calcsize_i
    /\ (lres.op = "next" /\ lres.at >= Len(file))
          => (lres.st = "raise" /\ lpc = "idle")
    /\ fpos <= Len(file)
    /\ ((lpc = "iterating" \/ lres.op = "next") /\ ~iread)
          => calcsize_i * Len(items) <= fpos - calcsize_i

\* C19 witness: the iteration of a corrupt file (an unknown type code, then
\* a zero-length string with its 4 pad bytes) yielded 3 values and ended at
\* the end of the file
C19_Witness ==
    /\ IterationDone /\ src = <<8, 6>> /\ Len(file) = FullLen
    /\ Len(items) = 3 /\ fpos = Len(file)

\* The iteration of a string record of declared length -5 ended at once
C19_NegativeLength ==
    /\ IterationDone /\ src = <<10, 11>> /\ Len(file) = FullLen
    /\ items = <<>> /\ lres.at = 4 /\ fpos = 12

\* C20: read_type never takes more than the requested count from the
\* stream: in every pass the buffer holds at most byte_count bytes, never
\* more than bytes_read accounts for (so the next request is at most what is
\* missing), and they are the last bytes delivered.
C20_NeverOverreads ==
    pc \in {"read_type_while", "read_type_recv"}
        => (/\ Len(data) <= byte_count
            /\ Len(data) <= bytes_read
            /\ Len(data) <= rpos
            /\ data = SubSeq(InStream, rpos - Len(data) + 1, rpos))

\* C20 witness: a type code arrived in more than one delivery, the buffer
\* holds its 4 bytes, and the bytes of the payload wait in the stream
C20_Witness ==
    /\ pc = "read_type_while" /\ ret = "read_data:type_code" /\ short
    /\ Len(data) = byte_count /\ byte_count = calcsize_i /\ Avail >= calcsize_i

====
